---------------------------- MODULE Spec2Model ----------------------------
(***************************************************************************)
(* IPyWidgetMessageDispatcher                                              *)
(* (src/notebooks/controllers/ipywidgets/message/                          *)
(*  ipyWidgetMessageDispatcher.ts) as a state machine.                     *)
(*                                                                         *)
(* One Dispatcher, the kernel provider, the kernel objects with their      *)
(* sessions, the kernel sockets of KernelSocketMap and the Render Surface  *)
(* (the listener of postMessage).  Every handler of the class is one       *)
(* action: the handler runs to completion (JavaScript is single threaded), *)
(* together with the continuations of the awaits its resolutions release.  *)
(***************************************************************************)
EXTENDS Integers, Sequences, FiniteSets, TLC

\* ------------------------------------------------------------------ bounds
MaxKernels   == 2   \* kernel objects the provider hands out over time
MaxKernelId  == 2   \* kernel connections (session.kernel.id) ever created
MaxPayloads  == 2   \* raw-send commands
MaxFrames    == 2   \* frames the kernel sockets deliver to the receive hook
MaxHookCalls == 1   \* calls of the message hook by the kernel connection
MaxGateFrames == 3  \* frames delivered where the gate is studied
MaxDecisions == 2   \* calls of the hook callback where the decisions are studied
MaxSends == 2       \* frames the kernel sockets pass to the send hook

Kernels   == 1..MaxKernels
KernelIds == 1..MaxKernelId

\* Identifiers.DefaultCommTarget and one third-party target name
DefaultCommTarget == "jupyter.widget"
TargetNames       == {DefaultCommTarget, "custom"}

\* what a raw payload is, as far as sendPendingMessages can tell
PayloadKinds == {"shell", "control", "malformed"}

\* what a kernel frame is, as far as onKernelSocketMessage can tell: "other"
\* needs no deserialization; "comm_open" opens an Output widget model,
\* "comm_close" closes a comm, "comm_msg" is an iopub state update of a comm
FrameTypes == {"other", "comm_open", "comm_close", "comm_msg"}
CommIds    == {"X"}

\* message ids the Render Surface registers message hooks for
HookIds == {"p"}

None == [id |-> 0]

VARIABLES
    \* ---- fields of the Dispatcher
    kernel,                        \* this.kernel: 0 (undefined) or a kernel object
    disposables,                   \* this.disposables
    kernelRestartHandlerAttached,
    kernelWasConnectedAtLeastOnce,
    disposed,
    pendingMessages,               \* PendingOutbound
    subscribedToKernelSocket,
    commTargetsRegistered,
    pendingTargetNames,            \* a Set iterates in insertion order: a sequence
    kernelSocketHandlers,          \* WeakMap socket -> hooks: is the recorded pair
                                   \* of hooks "attached", "removed", or "none" recorded
    socketChangeListener,          \* closure of the onDidKernelSocketChange listener
    waitingMessageIds,             \* keys of the WaitingMessage entries
    messageHooks,                  \* keys of the registered hooks
    pendingHookRemovals,           \* <<trigger message id, hook message id>>
    messageHookRequests,           \* keys of the pending hook decisions
    outputWidgetIds,
    fullHandleMessage,             \* the gate: None or [id, promise]
    isUsingIPyWidgets,
    \* ---- the collaborators
    providerKernel,                \* kernelProvider.get(document)
    kernelState,                   \* per kernel object: none, created, started, disposed
    sessionKernelId,               \* kernel.session.kernel.id, 0 when undefined
    lastKernelId,                  \* last kernel connection id handed out
    KernelSocketMap,               \* the kernel ids that have a socket
    socketHooks,                   \* pairs of hooks of this Dispatcher on each socket
    kernelCommTargets,             \* the process-wide WeakMap's keys
    thirdPartyTargets,             \* its targets sets: <<connection, name>>
    connTargets,                   \* calls of kernel.registerCommTarget per connection
    onDisposedHandlers,            \* kernel objects carrying the onDisposed callback
    restartHandlerKernel,          \* kernel object carrying handleKernelRestarts
    connHooks,                     \* hooks registered with the kernel connections
    \* ---- the promises
    resolved,                      \* the Deferreds resolved, <<table, key>>
    rejected,                      \* the Deferreds rejected
    hookDecisions,                 \* <<request, decision>> of the hook calls decided
    suspended,                     \* calls of onKernelSocketMessage at an await
    frames,                        \* number of frames received so far
    hookCalls,                     \* number of message hook calls so far
    closed,                        \* comm ids deleted from outputWidgetIds
    sends,                         \* number of frames passed to the send hook
    sending,                       \* <<frame, socket>>: the socket still awaits
                                   \* the send hook's call for that frame
    receiving,                     \* <<frame, socket>>: the socket still awaits
                                   \* the receive hook's call for that frame
    \* ---- what the collaborators observed
    sent,                          \* payloads handed to sendShell/ControlMessage
    posted,                        \* what the handler of the last event fired on
                                   \* postMessage, in order (kernel options
                                   \* snapshots apart)
    kernelCalls,                   \* the calls of registerMessageHook and
                                   \* removeMessageHook the handler of the last
                                   \* event made on kernel connections, in order
    queued,                        \* number of raw-send commands so far
    disposeCalls,                  \* dispose() calls received per disposable
    escaped                        \* an exception left a handler of the Dispatcher

vars == << kernel, disposables, kernelRestartHandlerAttached,
           kernelWasConnectedAtLeastOnce, disposed, pendingMessages,
           subscribedToKernelSocket, commTargetsRegistered, pendingTargetNames,
           kernelSocketHandlers, socketChangeListener, waitingMessageIds,
           messageHooks, pendingHookRemovals, messageHookRequests,
           outputWidgetIds, fullHandleMessage, isUsingIPyWidgets,
           connHooks, resolved, rejected, hookDecisions, suspended, frames, hookCalls,
           receiving, closed, sends, sending, providerKernel,
           kernelState, sessionKernelId, lastKernelId, KernelSocketMap,
           socketHooks, kernelCommTargets, thirdPartyTargets, connTargets,
           onDisposedHandlers,
           restartHandlerKernel, sent, posted, kernelCalls, queued,
           disposeCalls, escaped >>

\* The whole state as one record, so that a handler is a function on it and
\* the handlers compose the way their calls do.  A handler starts with nothing
\* posted yet and no call made on a kernel connection.
World ==
    [ kernel |-> kernel, disposables |-> disposables,
      kernelRestartHandlerAttached |-> kernelRestartHandlerAttached,
      kernelWasConnectedAtLeastOnce |-> kernelWasConnectedAtLeastOnce,
      disposed |-> disposed, pendingMessages |-> pendingMessages,
      subscribedToKernelSocket |-> subscribedToKernelSocket,
      commTargetsRegistered |-> commTargetsRegistered,
      pendingTargetNames |-> pendingTargetNames,
      kernelSocketHandlers |-> kernelSocketHandlers,
      socketChangeListener |-> socketChangeListener,
      waitingMessageIds |-> waitingMessageIds, messageHooks |-> messageHooks,
      pendingHookRemovals |-> pendingHookRemovals,
      messageHookRequests |-> messageHookRequests,
      outputWidgetIds |-> outputWidgetIds,
      fullHandleMessage |-> fullHandleMessage,
      isUsingIPyWidgets |-> isUsingIPyWidgets, connHooks |-> connHooks,
      resolved |-> resolved, rejected |-> rejected,
      hookDecisions |-> hookDecisions, suspended |-> suspended,
      frames |-> frames, hookCalls |-> hookCalls, receiving |-> receiving,
      closed |-> closed, sends |-> sends, sending |-> sending,
      providerKernel |-> providerKernel, kernelState |-> kernelState,
      sessionKernelId |-> sessionKernelId, lastKernelId |-> lastKernelId,
      KernelSocketMap |-> KernelSocketMap, socketHooks |-> socketHooks,
      kernelCommTargets |-> kernelCommTargets,
      thirdPartyTargets |-> thirdPartyTargets, connTargets |-> connTargets,
      onDisposedHandlers |-> onDisposedHandlers,
      restartHandlerKernel |-> restartHandlerKernel,
      sent |-> sent, posted |-> << >>, kernelCalls |-> << >>, queued |-> queued, disposeCalls |-> disposeCalls, escaped |-> escaped ]

\* the continuations with line 434 left out: the call returns after the
\* socket ack
RECURSIVE runMicrotasksAckOnly(_)
runMicrotasksAckOnly(w) ==
    LET ready == {c \in w.suspended : c.on \in w.resolved} IN
    IF ready = {} THEN w
    ELSE LET c == CHOOSE x \in ready : \A y \in ready : x.call[2] <= y.call[2]
         IN runMicrotasksAckOnly(
              [w EXCEPT !.suspended = @ \ {c}, !.fullHandleMessage = None])

\* The continuations of onKernelSocketMessage (lines 433-435) that the
\* promises resolved so far release.  They run as microtasks, before the next
\* event is handled.  After `await promise.promise` the call reads
\* this.fullHandleMessage anew: undefined there is a TypeError that leaves the
\* call; otherwise the call awaits the promise of the gate it finds.  After
\* that await the call clears the gate and returns.
\* A call of mirrorSend that awaits the acknowledgement of its execute
\* request (lines 311, 326) returns once the promise is resolved.
RECURSIVE runMicrotasks(_)
runMicrotasks(w) ==
    LET ready == {c \in w.suspended : c.on \in w.resolved} IN
    IF ready = {} THEN w
    ELSE LET c == CHOOSE x \in ready : \A y \in ready : x.call[2] <= y.call[2]
             rest == w.suspended \ {c}
         IN runMicrotasks(
              IF c.at = "exec"
              THEN [w EXCEPT !.suspended = rest]
              ELSE IF c.at = "ack"
              THEN IF w.fullHandleMessage = None
                   THEN [w EXCEPT !.suspended = rest, !.escaped = TRUE]
                   ELSE [w EXCEPT !.suspended = rest \cup
                            {[call |-> c.call, at |-> "gate",
                              on |-> <<"gate", w.fullHandleMessage.promise>>]}]
              ELSE [w EXCEPT !.suspended = rest, !.fullHandleMessage = None])

Commit(v) ==
    LET w == runMicrotasks(v) IN
    /\ kernel' = w.kernel
    /\ disposables' = w.disposables
    /\ kernelRestartHandlerAttached' = w.kernelRestartHandlerAttached
    /\ kernelWasConnectedAtLeastOnce' = w.kernelWasConnectedAtLeastOnce
    /\ disposed' = w.disposed
    /\ pendingMessages' = w.pendingMessages
    /\ subscribedToKernelSocket' = w.subscribedToKernelSocket
    /\ commTargetsRegistered' = w.commTargetsRegistered
    /\ pendingTargetNames' = w.pendingTargetNames
    /\ kernelSocketHandlers' = w.kernelSocketHandlers
    /\ socketChangeListener' = w.socketChangeListener
    /\ providerKernel' = w.providerKernel
    /\ kernelState' = w.kernelState
    /\ sessionKernelId' = w.sessionKernelId
    /\ lastKernelId' = w.lastKernelId
    /\ KernelSocketMap' = w.KernelSocketMap
    /\ socketHooks' = w.socketHooks
    /\ kernelCommTargets' = w.kernelCommTargets
    /\ thirdPartyTargets' = w.thirdPartyTargets
    /\ connTargets' = w.connTargets
    /\ onDisposedHandlers' = w.onDisposedHandlers
    /\ restartHandlerKernel' = w.restartHandlerKernel
    /\ sent' = w.sent
    /\ posted' = w.posted
    /\ kernelCalls' = w.kernelCalls
    /\ queued' = w.queued
    /\ disposeCalls' = w.disposeCalls
    /\ waitingMessageIds' = w.waitingMessageIds
    /\ messageHooks' = w.messageHooks
    /\ pendingHookRemovals' = w.pendingHookRemovals
    /\ messageHookRequests' = w.messageHookRequests
    /\ outputWidgetIds' = w.outputWidgetIds
    /\ fullHandleMessage' = w.fullHandleMessage
    /\ isUsingIPyWidgets' = w.isUsingIPyWidgets
    /\ connHooks' = w.connHooks
    /\ resolved' = w.resolved
    /\ rejected' = w.rejected
    /\ hookDecisions' = w.hookDecisions
    /\ suspended' = w.suspended
    /\ frames' = w.frames
    /\ hookCalls' = w.hookCalls
    /\ closed' = w.closed
    /\ sends' = w.sends
    /\ sending' = {p \in w.sending :
                      \E c \in w.suspended : c.call = <<"send", p[1]>>}
    /\ receiving' = {p \in w.receiving :
                        \E c \in w.suspended : c.call = <<"receive", p[1]>>}
    /\ escaped' = w.escaped

\* ----------------------------------------------------------- the accessors
\* kernel.session is defined
HasSession(w, k) == k # 0 /\ w.kernelState[k] = "started"

\* kernel.session?.kernel?.id, 0 when any link is undefined
KernelIdOf(w, k) == IF HasSession(w, k) THEN w.sessionKernelId[k] ELSE 0

\* kernel.session?.kernel is defined
HasConnection(w, k) == KernelIdOf(w, k) # 0

\* a JavaScript Set keeps insertion order: a sequence without repetition
Has(set, x) == \E i \in 1..Len(set) : set[i] = x
Add(set, x) == IF Has(set, x) THEN set ELSE Append(set, x)
RECURSIVE AddAll(_, _)
AddAll(set, xs) == IF xs = << >> THEN set ELSE AddAll(Add(set, Head(xs)), Tail(xs))
Range(seq) == {seq[i] : i \in 1..Len(seq)}

raisePostMessage(w, message, id) ==
    [w EXCEPT !.posted = Append(@, [message |-> message, id |-> id])]

\* the post of a kernel frame carries the frame (lines 376, 389-392)
raiseFrame(w, message, id, f) ==
    [w EXCEPT !.posted = Append(@, [message |-> message, id |-> id, data |-> f])]


\* ------------------------------------------------------- the outbound queue
\* flushQueue with the shift of line 482 moved out of the try: the payload
\* whose hand-off throws is dropped
RECURSIVE flushQueueDropsFailed(_, _, _)
flushQueueDropsFailed(w, id, ok) ==
    IF w.pendingMessages = << >> THEN w
    ELSE LET message == Head(w.pendingMessages) IN
         IF message.kind = "malformed" \/ ok = 0
         THEN [w EXCEPT !.pendingMessages = Tail(@)]
         ELSE flushQueueDropsFailed(
                [w EXCEPT !.sent = Append(@, [seq |-> message.seq,
                                              channel |-> message.kind,
                                              connected |-> message.connected,
                                              kernelId |-> id]),
                          !.pendingMessages = Tail(@)],
                id, ok - 1)

\* One hand-off of the loop of sendPendingMessages (lines 453-487).  `ok` is
\* the number of hand-offs the kernel channel still accepts before
\* sendShellMessage / sendControlMessage throws.  JSON.parse of a malformed
\* payload throws before any hand-off.  The catch (lines 483-486) logs and
\* returns: nothing leaves the handler.
RECURSIVE flushQueue(_, _, _)
flushQueue(w, id, ok) ==
    IF w.pendingMessages = << >> THEN w
    ELSE LET message == Head(w.pendingMessages) IN
         IF message.kind = "malformed" \/ ok = 0
         THEN w
         ELSE flushQueue(
                [w EXCEPT !.sent = Append(@, [seq |-> message.seq,
                                              channel |-> message.kind,
                                              connected |-> message.connected,
                                              kernelId |-> id]),
                          !.pendingMessages = Tail(@)],
                id, ok - 1)

\* sendPendingMessages without the guard of lines 447-449
sendPendingMessagesUnguarded(w, ok) ==
    flushQueue(w, KernelIdOf(w, w.kernel), ok)

\* sendPendingMessages (lines 446-488)
sendPendingMessages(w, ok) ==
    IF ~HasConnection(w, w.kernel) THEN w
    ELSE flushQueue(w, KernelIdOf(w, w.kernel), ok)

\* sendRawPayloadToKernelSocket with unshift in place of push
sendRawPayloadToKernelSocketUnshift(w, kind, ok) ==
    sendPendingMessages(
        [w EXCEPT !.queued = @ + 1,
                  !.pendingMessages =
                      << [seq |-> w.queued + 1, kind |-> kind,
                          connected |-> w.kernelWasConnectedAtLeastOnce] >> \o @],
        ok)

\* sendRawPayloadToKernelSocket (lines 170-173).  The payload is numbered in
\* the order of the commands and remembers whether a kernel had been connected
\* when it was queued.
sendRawPayloadToKernelSocket(w, kind, ok) ==
    sendPendingMessages(
        [w EXCEPT !.queued = @ + 1,
                  !.pendingMessages =
                      Append(@, [seq |-> w.queued + 1, kind |-> kind,
                                 connected |-> w.kernelWasConnectedAtLeastOnce])],
        ok)

\* -------------------------------------------------------------- comm targets
\* registerCommTargetFor3rdPartyExtensions (lines 31-37) for the kernel
\* connection id: the callback of the table's entry is the one of line 252
registerCommTargetFor3rdPartyExtensions(w, id, targetName) ==
    IF id \in w.kernelCommTargets
    THEN [w EXCEPT !.thirdPartyTargets = @ \cup {<<id, targetName>>},
                   !.posted = Append(@, [message |-> "IPyWidgets_registerCommTarget",
                                         id |-> 0, targetName |-> targetName])]
    ELSE w

\* removeCommTargetFor3rdPartyExtensions (lines 39-41)
removeCommTargetFor3rdPartyExtensions(w, id, targetName) ==
    [w EXCEPT !.thirdPartyTargets = @ \ {<<id, targetName>>}]

\* registerCommTargets without the check of lines 497-500
RECURSIVE registerCommTargetsUnchecked(_, _)
registerCommTargetsUnchecked(w, k) ==
    IF w.pendingTargetNames = << >> THEN w
    ELSE LET targetName == Head(w.pendingTargetNames)
             id == KernelIdOf(w, k)
         IN registerCommTargetsUnchecked(
                   [w EXCEPT
                      !.commTargetsRegistered = Add(@, targetName),
                      !.pendingTargetNames = Tail(@),
                      !.connTargets =
                          IF /\ id # 0
                             /\ targetName # DefaultCommTarget
                             /\ <<id, targetName>> \notin w.thirdPartyTargets
                          THEN [@ EXCEPT ![<<id, targetName>>] = @ + 1]
                          ELSE @],
                   k)

\* registerCommTargets that drops the predefined target instead of tracking it
RECURSIVE registerCommTargetsDropsDefault(_, _)
registerCommTargetsDropsDefault(w, k) ==
    IF w.pendingTargetNames = << >> THEN w
    ELSE LET targetName == Head(w.pendingTargetNames)
             id == KernelIdOf(w, k)
         IN IF Has(w.commTargetsRegistered, targetName) THEN w
            ELSE registerCommTargetsDropsDefault(
                   [w EXCEPT
                      !.commTargetsRegistered =
                          IF targetName = DefaultCommTarget THEN @
                          ELSE Append(@, targetName),
                      !.pendingTargetNames = Tail(@),
                      !.connTargets =
                          IF /\ id # 0
                             /\ targetName # DefaultCommTarget
                             /\ <<id, targetName>> \notin w.thirdPartyTargets
                          THEN [@ EXCEPT ![<<id, targetName>>] = @ + 1]
                          ELSE @],
                   k)

\* registerCommTargets (lines 490-517): the head of pendingTargetNames is taken
\* each round; a name already registered ends the loop with the name still
\* pending.
RECURSIVE registerCommTargets(_, _)
registerCommTargets(w, k) ==
    IF w.pendingTargetNames = << >> THEN w
    ELSE LET targetName == Head(w.pendingTargetNames)
             id == KernelIdOf(w, k)
         IN IF Has(w.commTargetsRegistered, targetName) THEN w
            ELSE registerCommTargets(
                   [w EXCEPT
                      !.commTargetsRegistered = Append(@, targetName),
                      !.pendingTargetNames = Tail(@),
                      !.connTargets =
                          IF /\ id # 0
                             /\ targetName # DefaultCommTarget
                             /\ <<id, targetName>> \notin w.thirdPartyTargets
                          THEN [@ EXCEPT ![<<id, targetName>>] = @ + 1]
                          ELSE @],
                   k)

\* ------------------------------------------------------------- subscription
\* sendRestartKernel that fires the notice twice
sendRestartKernelTwice(w) ==
    raisePostMessage(raisePostMessage(w, "IPyWidgets_onRestartKernel", 0),
                     "IPyWidgets_onRestartKernel", 0)

\* sendRestartKernel (lines 335-337)
sendRestartKernel(w) == raisePostMessage(w, "IPyWidgets_onRestartKernel", 0)

\* subscribeToKernelSocketImpl without lines 221-229
removeOldHandlersSkipped(w, oldKernelId) == w

\* lines 221-229: the pair of hooks recorded for the old socket is removed
\* from it (removing a hook that is not attached changes nothing)
removeOldHandlers(w, oldKernelId) ==
    IF /\ oldKernelId # 0
       /\ oldKernelId \in w.KernelSocketMap
       /\ w.kernelSocketHandlers[oldKernelId] = "attached"
    THEN [w EXCEPT !.socketHooks[oldKernelId] = @ - 1,
                   !.kernelSocketHandlers[oldKernelId] = "removed"]
    ELSE w

\* resolve() of Deferreds: one already settled stays as it is
resolveAll(w, ds) ==
    [w EXCEPT !.resolved = @ \cup (ds \ w.rejected)]

\* the discard of a restart without the loop of lines 233-235
discardOnRestartKeepsQueue(w) ==
    IF w.kernelWasConnectedAtLeastOnce
    THEN LET w1 == resolveAll(w, w.waitingMessageIds \cup w.messageHookRequests)
         IN sendRestartKernel(
               [w1 EXCEPT !.hookDecisions = @ \cup
                              {<<r[2], FALSE>> : r \in w.messageHookRequests},
                          !.waitingMessageIds = {},
                          !.messageHookRequests = {},
                          !.messageHooks = {}])
    ELSE w

\* the discard of a restart without line 240
discardOnRestartKeepsHooks(w) ==
    IF w.kernelWasConnectedAtLeastOnce
    THEN LET w1 == resolveAll(w, w.waitingMessageIds \cup w.messageHookRequests)
         IN sendRestartKernel(
               [w1 EXCEPT !.hookDecisions = @ \cup
                              {<<r[2], FALSE>> : r \in w.messageHookRequests},
                          !.pendingMessages = << >>,
                          !.waitingMessageIds = {},
                          !.messageHookRequests = {}])
    ELSE w

\* the discard of a restart without the test of line 230
discardOnRestartAlways(w) ==
    LET w1 == resolveAll(w, w.waitingMessageIds \cup w.messageHookRequests)
    IN sendRestartKernel(
          [w1 EXCEPT !.hookDecisions = @ \cup
                         {<<r[2], FALSE>> : r \in w.messageHookRequests},
                     !.pendingMessages = << >>,
                     !.waitingMessageIds = {},
                     !.messageHookRequests = {},
                     !.messageHooks = {}])

\* the discard of a restart that also forgets the widget usage seen so far
discardOnRestartResetsFlag(w) ==
    IF w.kernelWasConnectedAtLeastOnce
    THEN LET w1 == resolveAll(w, w.waitingMessageIds \cup w.messageHookRequests)
         IN sendRestartKernel(
               [w1 EXCEPT !.hookDecisions = @ \cup
                              {<<r[2], FALSE>> : r \in w.messageHookRequests},
                          !.pendingMessages = << >>,
                          !.waitingMessageIds = {},
                          !.messageHookRequests = {},
                          !.messageHooks = {},
                          !.isUsingIPyWidgets = FALSE])
    ELSE w

\* lines 230-242: the discard of a restart
discardOnRestart(w) ==
    IF w.kernelWasConnectedAtLeastOnce
    THEN LET w1 == resolveAll(w, w.waitingMessageIds \cup w.messageHookRequests)
         IN sendRestartKernel(
               [w1 EXCEPT !.hookDecisions = @ \cup
                              {<<r[2], FALSE>> : r \in w.messageHookRequests},
                          !.pendingMessages = << >>,
                          !.waitingMessageIds = {},
                          !.messageHookRequests = {},
                          !.messageHooks = {}])
    ELSE w

\* lines 257-267: the receive hook and the send hook are bound afresh,
\* attached to the new socket and recorded for it in place of the pair
\* recorded before
attachHandlers(w, id) ==
    [w EXCEPT !.kernelWasConnectedAtLeastOnce = TRUE,
              !.socketHooks[id] = @ + 1,
              !.kernelSocketHandlers[id] = "attached"]

\* subscribeToKernelSocketImpl (lines 220-272).  sendKernelOptions (line 268)
\* posts a snapshot of the kernel options and changes nothing else; `posted`
\* does not log the snapshots.
subscribeToKernelSocketImpl(w, k, oldKernelId, ok) ==
    LET w1 == discardOnRestart(removeOldHandlers(w, oldKernelId))
        id == KernelIdOf(w1, k)
    IN IF id = 0 \/ id \notin w1.KernelSocketMap THEN w1
       ELSE LET w2 == [w1 EXCEPT !.kernelCommTargets = @ \cup {id}]
                w3 == attachHandlers(w2, id)
            IN sendPendingMessages(registerCommTargets(w3, k), ok)

\* subscribeToKernelSocket that subscribes whenever the kernel has a session
subscribeToKernelSocketAgain(w, k, ok) ==
    IF ~HasSession(w, k) THEN w
    ELSE LET w1 == subscribeToKernelSocketImpl(
                       [w EXCEPT !.subscribedToKernelSocket = TRUE], k, 0, ok)
         IN [w1 EXCEPT !.socketChangeListener =
                           [kernel |-> k, oldKernelId |-> KernelIdOf(w1, k)]]

\* subscribeToKernelSocket (lines 199-212)
subscribeToKernelSocket(w, k, ok) ==
    IF w.subscribedToKernelSocket \/ ~HasSession(w, k) THEN w
    ELSE LET w1 == subscribeToKernelSocketImpl(
                       [w EXCEPT !.subscribedToKernelSocket = TRUE], k, 0, ok)
         IN [w1 EXCEPT !.socketChangeListener =
                           [kernel |-> k, oldKernelId |-> KernelIdOf(w1, k)]]

\* the listener of kernel.session.onDidKernelSocketChange (lines 208-211)
onDidKernelSocketChange(w, ok) ==
    LET l  == w.socketChangeListener
        w1 == subscribeToKernelSocketImpl(w, l.kernel, l.oldKernelId, ok)
    IN [w1 EXCEPT !.socketChangeListener.oldKernelId = KernelIdOf(w1, l.kernel)]

\* getKernel (lines 519-529)
getKernel(w) ==
    LET w1 == IF ~HasSession(w, w.kernel)
              THEN [w EXCEPT !.kernel = w.providerKernel,
                             !.onDisposedHandlers =
                                 IF w.providerKernel # 0
                                 THEN @ \cup {w.providerKernel} ELSE @]
              ELSE w
    IN IF w1.kernel # 0 /\ ~w1.kernelRestartHandlerAttached
       THEN [w1 EXCEPT !.kernelRestartHandlerAttached = TRUE,
                       !.disposables = Append(@, "onRestarted"),
                       !.restartHandlerKernel = w1.kernel]
       ELSE w1

\* initialize (lines 179-192)
initialize(w, ok) ==
    LET w1 == getKernel(w)
    IN IF w1.kernel # 0
       THEN registerCommTargets(subscribeToKernelSocket(w1, w1.kernel, ok), w1.kernel)
       ELSE w1

\* registerCommTarget (lines 174-177)
registerCommTarget(w, targetName, ok) ==
    initialize([w EXCEPT !.pendingTargetNames = Add(@, targetName)], ok)

\* handleKernelRestarts without line 545
handleKernelRestartsNoDrain(w, ok) ==
    IF w.disposed \/ w.commTargetsRegistered = << >> \/ ~HasSession(w, w.kernel)
    THEN w
    ELSE LET w1 == [w EXCEPT !.commTargetsRegistered = << >>,
                             !.pendingTargetNames =
                                 AddAll(@, w.commTargetsRegistered)]
         IN subscribeToKernelSocket(w1, w1.kernel, ok)

\* handleKernelRestarts (lines 534-546)
handleKernelRestarts(w, ok) ==
    IF w.disposed \/ w.commTargetsRegistered = << >> \/ ~HasSession(w, w.kernel)
    THEN w
    ELSE LET w1 == [w EXCEPT !.commTargetsRegistered = << >>,
                             !.pendingTargetNames =
                                 AddAll(@, w.commTargetsRegistered)]
         IN registerCommTargets(subscribeToKernelSocket(w1, w1.kernel, ok), w1.kernel)

\* ---------------------------------------------------------- the send hook
\* shouldMessageBeMirroredWithRenderer: a pure predicate of the frame
shouldMessageBeMirroredWithRenderer(f) == f.mirror

\* mirrorExecuteRequest (lines 339-344) for the request with msg_id m
mirrorExecuteRequest(w, m) ==
    raisePostMessage([w EXCEPT !.waitingMessageIds = @ \cup {<<"exec", m>>}],
                     "IPyWidgets_mirror_execute", m)

\* mirrorSend that awaits whatever the flag says
mirrorSendAlwaysWaits(w, f) ==
    LET m == w.sends + 1
        w1 == [w EXCEPT !.sends = m]
    IN IF f.execute /\ f.mirror
       THEN [mirrorExecuteRequest(w1, m) EXCEPT
               !.suspended = @ \cup {[call |-> <<"send", m>>, at |-> "exec",
                                      on |-> <<"exec", m>>]}]
       ELSE w1

\* mirrorSend that never awaits
mirrorSendNeverWaits(w, f) ==
    LET m == w.sends + 1
        w1 == [w EXCEPT !.sends = m]
    IN IF f.execute /\ f.mirror THEN mirrorExecuteRequest(w1, m) ELSE w1

\* mirrorSend (lines 295-333) up to its await, for the m-th frame the socket
\* is about to send; m stands for the msg_id of the frame.  f.execute: the
\* frame is a shell execute_request (lines 298-304 for text, 314-319 for
\* binary data).
mirrorSend(w, f) ==
    LET m == w.sends + 1
        w1 == [w EXCEPT !.sends = m]
    IN IF f.execute /\ shouldMessageBeMirroredWithRenderer(f)
       THEN LET w2 == mirrorExecuteRequest(w1, m)
            IN IF w2.isUsingIPyWidgets
               THEN [w2 EXCEPT !.suspended = @ \cup
                        {[call |-> <<"send", m>>, at |-> "exec",
                          on |-> <<"exec", m>>]}]
               ELSE w2
       ELSE w1

\* ------------------------------------------------------- the receive hook
\* lines 395-403: only a frame that may matter is deserialized
mustDeserialize(f) == f.binary \/ f.widget \/ f.type # "other"

\* messageNeedsFullHandle (lines 348-356)
messageNeedsFullHandle(w, f) ==
    f.type = "comm_msg" /\ f.comm \in w.outputWidgetIds

\* the classification with the close branch of lines 429-430 left out
classifyKeepsClosed(w, f, n) ==
    LET w1 == IF f.widget THEN [w EXCEPT !.isUsingIPyWidgets = TRUE] ELSE w
    IN IF f.type = "comm_open"
       THEN [w1 EXCEPT !.outputWidgetIds = @ \cup {f.comm}]
       ELSE IF messageNeedsFullHandle(w1, f)
       THEN [w1 EXCEPT !.fullHandleMessage = [id |-> n, promise |-> n],
                       !.suspended = @ \cup
                           {[call |-> <<"receive", n>>, at |-> "ack",
                             on |-> <<"uuid", n>>]}]
       ELSE w1

\* lines 410-436: the classification of a deserialized, mirrored frame with
\* correlation id and message id n
classify(w, f, n) ==
    LET w1 == IF f.widget THEN [w EXCEPT !.isUsingIPyWidgets = TRUE] ELSE w
    IN IF f.type = "comm_open"
       THEN [w1 EXCEPT !.outputWidgetIds = @ \cup {f.comm}]
       ELSE IF f.type = "comm_close" /\ f.comm \in w1.outputWidgetIds
       THEN [w1 EXCEPT !.outputWidgetIds = @ \ {f.comm},
                       !.closed = @ \cup {f.comm}]
       ELSE IF messageNeedsFullHandle(w1, f)
       THEN [w1 EXCEPT !.fullHandleMessage = [id |-> n, promise |-> n],
                       !.suspended = @ \cup
                           {[call |-> <<"receive", n>>, at |-> "ack",
                             on |-> <<"uuid", n>>]}]
       ELSE w1

\* onKernelSocketMessage that forwards a frame under the correlation id of the
\* frame before it
onKernelSocketMessageStaleId(w, f) ==
    LET n  == w.frames + 1
        w1 == [w EXCEPT !.frames = n,
                        !.waitingMessageIds = @ \cup {<<"uuid", n>>}]
        w2 == IF f.binary
              THEN raiseFrame(w1, "IPyWidgets_binary_msg", w.frames, f)
              ELSE IF shouldMessageBeMirroredWithRenderer(f)
                   THEN raiseFrame(w1, "IPyWidgets_msg", w.frames, f)
                   ELSE w1
    IN IF mustDeserialize(f)
       THEN IF f.malformed
            THEN [w2 EXCEPT !.escaped = TRUE]
            ELSE IF shouldMessageBeMirroredWithRenderer(f)
                 THEN classify(w2, f, n)
                 ELSE w2
       ELSE w2

\* onKernelSocketMessage (lines 367-438) up to its first await; the frame is
\* the n-th one, n stands for its generated uuid and for its msg_id.  The
\* deserialization of a malformed frame (line 405) throws, and nothing
\* catches it: the promise the hook returned is rejected.
onKernelSocketMessage(w, f) ==
    LET n  == w.frames + 1
        w1 == [w EXCEPT !.frames = n,
                        !.waitingMessageIds = @ \cup {<<"uuid", n>>}]
        w2 == IF f.binary
              THEN raiseFrame(w1, "IPyWidgets_binary_msg", n, f)
              ELSE IF shouldMessageBeMirroredWithRenderer(f)
                   THEN raiseFrame(w1, "IPyWidgets_msg", n, f)
                   ELSE w1
    IN IF mustDeserialize(f)
       THEN IF f.malformed
            THEN [w2 EXCEPT !.escaped = TRUE]
            ELSE IF shouldMessageBeMirroredWithRenderer(f)
                 THEN classify(w2, f, n)
                 ELSE w2
       ELSE w2

\* onKernelSocketResponse that resolves the signal of whatever id it is given
onKernelSocketResponseAnyId(w, key) ==
    resolveAll([w EXCEPT !.waitingMessageIds = @ \ {key}], {key})

\* onKernelSocketResponse (lines 439-445)
onKernelSocketResponse(w, key) ==
    IF key \in w.waitingMessageIds
    THEN resolveAll([w EXCEPT !.waitingMessageIds = @ \ {key}], {key})
    ELSE w

\* iopubMessageHandled without the comparison of the ids
iopubMessageHandledAnyId(w, msgId) ==
    IF w.fullHandleMessage # None
    THEN resolveAll([w EXCEPT !.fullHandleMessage = None],
                    {<<"gate", w.fullHandleMessage.promise>>})
    ELSE w

\* iopubMessageHandled (lines 359-366)
iopubMessageHandled(w, msgId) ==
    IF w.fullHandleMessage # None /\ w.fullHandleMessage.id = msgId
    THEN resolveAll([w EXCEPT !.fullHandleMessage = None],
                    {<<"gate", w.fullHandleMessage.promise>>})
    ELSE w

\* ------------------------------------------------------------ message hooks
\* the post of IPyWidgets_ExtensionOperationHandled carries the hook message
\* id (the payload's id, a msg_id of the kernel protocol) and the command it
\* answers (lines 558-561, 576-579)
raiseOperationHandled(w, msgId, type) ==
    [w EXCEPT !.posted = Append(@, [message |-> "IPyWidgets_ExtensionOperationHandled",
                                    msgId |-> msgId, type |-> type])]

\* this.kernel.session.kernel.registerMessageHook(msgId, callback) and
\* removeMessageHook(msgId, callback) (lines 553, 587): the call is made on the
\* kernel connection the session has at that moment
callKernel(w, method, msgId) ==
    [w EXCEPT !.kernelCalls =
        Append(@, [method |-> method, kernelId |-> KernelIdOf(w, w.kernel),
                   msgId |-> msgId])]

\* registerMessageHook that answers only a registration it has made
registerMessageHookAckOnSuccess(w, msgId) ==
    IF HasConnection(w, w.kernel) /\ msgId \notin w.messageHooks
    THEN raiseOperationHandled(
             callKernel([w EXCEPT !.messageHooks = @ \cup {msgId},
                                  !.connHooks = @ \cup {<<KernelIdOf(w, w.kernel), msgId>>}],
                        "registerMessageHook", msgId),
             msgId, "IPyWidgets_RegisterMessageHook")
    ELSE w

\* registerMessageHook without the test of messageHooks
registerMessageHookUnguarded(w, msgId) ==
    raiseOperationHandled(
        IF HasConnection(w, w.kernel)
        THEN callKernel([w EXCEPT !.messageHooks = @ \cup {msgId},
                                  !.connHooks = @ \cup {<<KernelIdOf(w, w.kernel), msgId>>}],
                        "registerMessageHook", msgId)
        ELSE w,
        msgId, "IPyWidgets_RegisterMessageHook")

\* registerMessageHook (lines 548-563)
registerMessageHook(w, msgId) ==
    raiseOperationHandled(
        IF HasConnection(w, w.kernel) /\ msgId \notin w.messageHooks
        THEN callKernel([w EXCEPT !.messageHooks = @ \cup {msgId},
                                  !.connHooks = @ \cup {<<KernelIdOf(w, w.kernel), msgId>>}],
                        "registerMessageHook", msgId)
        ELSE w,
        msgId, "IPyWidgets_RegisterMessageHook")

\* removeMessageHook (lines 583-589)
removeMessageHook(w, msgId) ==
    IF HasConnection(w, w.kernel) /\ msgId \in w.messageHooks
    THEN callKernel([w EXCEPT !.messageHooks = @ \ {msgId},
                              !.connHooks = @ \ {<<KernelIdOf(w, w.kernel), msgId>>}],
                    "removeMessageHook", msgId)
    ELSE w

\* possiblyRemoveMessageHook that removes the hook whatever the trigger id
possiblyRemoveMessageHookAtOnce(w, hookMsgId, lastHookedMsgId) ==
    raiseOperationHandled(removeMessageHook(w, hookMsgId),
                          hookMsgId, "IPyWidgets_RemoveMessageHook")

\* possiblyRemoveMessageHook (lines 565-581); lastHookedMsgId "" is undefined.
\* A Map keeps one entry per key.
possiblyRemoveMessageHook(w, hookMsgId, lastHookedMsgId) ==
    raiseOperationHandled(
        IF lastHookedMsgId # ""
        THEN [w EXCEPT !.pendingHookRemovals =
                 {r \in @ : r[1] # lastHookedMsgId} \cup
                 {<<lastHookedMsgId, hookMsgId>>}]
        ELSE removeMessageHook(w, hookMsgId),
        hookMsgId, "IPyWidgets_RemoveMessageHook")

\* messageHookCallback that asks the Render Surface whatever the parent is
messageHookCallbackAlwaysAsks(w, parentId, msgId) ==
    LET r  == w.hookCalls + 1
        w1 == raisePostMessage(
                  [w EXCEPT !.hookCalls = r,
                            !.messageHookRequests = @ \cup {<<"hook", r>>}],
                  "IPyWidgets_MessageHookCall", r)
        due == {p \in w1.pendingHookRemovals : p[1] = msgId}
    IN IF due = {} THEN w1
       ELSE removeMessageHook(
                [w1 EXCEPT !.pendingHookRemovals = @ \ due],
                (CHOOSE p \in due : TRUE)[2])

\* messageHookCallback (lines 591-612) for an iopub message msgId whose parent
\* is parentId; the request is the r-th one
messageHookCallback(w, parentId, msgId) ==
    LET r  == w.hookCalls + 1
        w1 == IF parentId \in w.messageHooks
              THEN raisePostMessage(
                       [w EXCEPT !.hookCalls = r,
                                 !.messageHookRequests = @ \cup {<<"hook", r>>}],
                       "IPyWidgets_MessageHookCall", r)
              ELSE [w EXCEPT !.hookCalls = r,
                             !.resolved = @ \cup {<<"hook", r>>},
                             !.hookDecisions = @ \cup {<<r, TRUE>>}]
        due == {p \in w1.pendingHookRemovals : p[1] = msgId}
    IN IF due = {} THEN w1
       ELSE removeMessageHook(
                [w1 EXCEPT !.pendingHookRemovals = @ \ due],
                (CHOOSE p \in due : TRUE)[2])

\* handleMessageHookResponse that passes the reported result on as it is
handleMessageHookResponsePlain(w, r, isComm, result) ==
    IF <<"hook", r>> \in w.messageHookRequests
    THEN [w EXCEPT !.messageHookRequests = @ \ {<<"hook", r>>},
                   !.resolved = @ \cup {<<"hook", r>>},
                   !.hookDecisions = @ \cup {<<r, result>>}]
    ELSE w

\* handleMessageHookResponse (lines 614-622); isComm: args.msgType contains
\* "comm"
handleMessageHookResponse(w, r, isComm, result) ==
    IF <<"hook", r>> \in w.messageHookRequests
    THEN [w EXCEPT !.messageHookRequests = @ \ {<<"hook", r>>},
                   !.resolved = @ \cup {<<"hook", r>>},
                   !.hookDecisions = @ \cup {<<r, isComm \/ result>>}]
    ELSE w

\* ------------------------------------------------------------------ disposal
\* one disposable.dispose() (line 116)
disposeOne(w, d) ==
    [w EXCEPT !.disposeCalls[d] = @ + 1,
              !.restartHandlerKernel = IF d = "onRestarted" THEN 0 ELSE @]

\* dispose (lines 112-118)
RECURSIVE shiftDisposables(_)
shiftDisposables(w) ==
    IF w.disposables = << >> THEN w
    ELSE shiftDisposables(
            disposeOne([w EXCEPT !.disposables = Tail(@)], Head(w.disposables)))

\* dispose that walks the list without shifting it
disposeKeepsList(w) ==
    [shiftDisposables([w EXCEPT !.disposed = TRUE]) EXCEPT
        !.disposables = w.disposables]

dispose(w) == shiftDisposables([w EXCEPT !.disposed = TRUE])


\* ------------------------------------------------------------ initial state
Disposables == {"onDidStartKernel", "onRestarted"}

\* the state after the constructor (lines 88-111)
Init ==
    /\ kernel = 0
    /\ disposables = << "onDidStartKernel" >>
    /\ kernelRestartHandlerAttached = FALSE
    /\ kernelWasConnectedAtLeastOnce = FALSE
    /\ disposed = FALSE
    /\ pendingMessages = << >>
    /\ subscribedToKernelSocket = FALSE
    /\ commTargetsRegistered = << >>
    /\ pendingTargetNames = << DefaultCommTarget >>
    /\ kernelSocketHandlers = [id \in KernelIds |-> "none"]
    /\ socketChangeListener = [kernel |-> 0, oldKernelId |-> 0]
    /\ providerKernel = 0
    /\ kernelState = [k \in Kernels |-> "none"]
    /\ sessionKernelId = [k \in Kernels |-> 0]
    /\ lastKernelId = 0
    /\ KernelSocketMap = {}
    /\ socketHooks = [id \in KernelIds |-> 0]
    /\ kernelCommTargets = {}
    /\ thirdPartyTargets = {}
    /\ connTargets = [c \in KernelIds \X TargetNames |-> 0]
    /\ onDisposedHandlers = {}
    /\ restartHandlerKernel = 0
    /\ sent = << >>
    /\ posted = << >>
    /\ kernelCalls = << >>
    /\ queued = 0
    /\ disposeCalls = [d \in Disposables |-> 0]
    /\ waitingMessageIds = {}
    /\ messageHooks = {}
    /\ pendingHookRemovals = {}
    /\ messageHookRequests = {}
    /\ outputWidgetIds = {}
    /\ fullHandleMessage = None
    /\ isUsingIPyWidgets = FALSE
    /\ connHooks = {}
    /\ resolved = {}
    /\ rejected = {}
    /\ hookDecisions = {}
    /\ suspended = {}
    /\ frames = 0
    /\ hookCalls = 0
    /\ receiving = {}
    /\ closed = {}
    /\ sends = 0
    /\ sending = {}
    /\ escaped = FALSE

\* the numbers of hand-offs the kernel channel may accept before it throws
Accepts == 0..(Len(pendingMessages) + 1)

\* the kernel ids a session may get: none yet, the one it has, a new one
NewKernelIds(k) ==
    {0, sessionKernelId[k]} \cup
    (IF lastKernelId < MaxKernelId THEN {lastKernelId + 1} ELSE {})

\* the session of kernel object k gets kernel connection id (0: none), whose
\* socket is in KernelSocketMap
setSessionKernel(w, k, id) ==
    [w EXCEPT !.sessionKernelId[k] = id,
              !.lastKernelId = IF id > @ THEN id ELSE @,
              !.KernelSocketMap = IF id # 0 THEN @ \cup {id} ELSE @]

\* --------------------------------------------- the collaborators' events
\* the provider creates the kernel object of the document
CreateKernel ==
    \E k \in Kernels :
        /\ providerKernel = 0
        /\ kernelState[k] = "none"
        /\ \A j \in Kernels : j < k => kernelState[j] # "none"
        /\ Commit([World EXCEPT !.providerKernel = k,
                                !.kernelState[k] = "created"])

\* the kernel starts: it gets its session, and kernelProvider.onDidStartKernel
\* fires (lines 96-104) while the Dispatcher's listener is not disposed
StartKernelWith(k, id, ok) ==
    /\ kernelState[k] = "created"
    /\ LET w == setSessionKernel([World EXCEPT !.kernelState[k] = "started"], k, id)
       IN Commit(IF disposeCalls["onDidStartKernel"] = 0
                 THEN initialize(w, ok) ELSE w)

StartKernel ==
    \E k \in Kernels : \E id \in NewKernelIds(k), ok \in Accepts :
        StartKernelWith(k, id, ok)

\* the session of a kernel changes its socket (a restart, a reconnection) and
\* fires onDidKernelSocketChange
socketChanged(w, k, id, ok) ==
    LET v == setSessionKernel(w, k, id)
    IN IF w.socketChangeListener.kernel = k
       THEN onDidKernelSocketChange(v, ok) ELSE v

SocketChangeWith(k, id, ok) ==
    /\ kernelState[k] = "started"
    /\ Commit(socketChanged(World, k, id, ok))

SocketChange ==
    \E k \in Kernels : \E id \in NewKernelIds(k), ok \in Accepts :
        SocketChangeWith(k, id, ok)

\* kernel.onRestarted fires: the kernel behind the connection is a new one,
\* which knows none of the comm targets registered before
onRestarted(w, k, ok) ==
    handleKernelRestarts(
        [w EXCEPT !.connTargets =
            [c \in DOMAIN @ |->
                IF c[1] = w.sessionKernelId[k] THEN 0 ELSE @[c]]],
        ok)

KernelRestartedWith(k, ok) ==
    /\ kernelState[k] = "started"
    /\ restartHandlerKernel = k
    /\ Commit(onRestarted(World, k, ok))

KernelRestarted == \E k \in Kernels, ok \in Accepts : KernelRestartedWith(k, ok)

\* a kernel object is disposed: its session is gone, the provider forgets it,
\* and the onDisposed callback of line 522 runs
DisposeKernel ==
    \E k \in Kernels :
        /\ kernelState[k] \in {"created", "started"}
        /\ Commit([World EXCEPT
              !.kernelState[k] = "disposed",
              !.providerKernel = IF @ = k THEN 0 ELSE @,
              !.kernel = IF k \in onDisposedHandlers THEN 0 ELSE @])

\* ------------------------------------------ the Render Surface's commands
\* receiveMessage, IPyWidgets_Ready (lines 131-134): a kernel options
\* snapshot, then initialize
ReadyWith(ok) == Commit(initialize(World, ok))

Ready == \E ok \in Accepts : ReadyWith(ok)

\* receiveMessage, IPyWidgets_msg / IPyWidgets_binary_msg (lines 135-140)
RawSendWith(kind, ok) ==
    /\ queued < MaxPayloads
    /\ Commit(sendRawPayloadToKernelSocket(World, kind, ok))

RawSend == \E kind \in PayloadKinds, ok \in Accepts : RawSendWith(kind, ok)

\* receiveMessage, IPyWidgets_registerCommTarget (lines 146-148)
RegisterCommTargetWith(targetName, ok) ==
    Commit(registerCommTarget(World, targetName, ok))

RegisterCommTarget ==
    \E targetName \in TargetNames, ok \in Accepts :
        RegisterCommTargetWith(targetName, ok)

\* dispose()
Dispose == Commit(dispose(World))

\* receiveMessage, IPyWidgets_msg_received (lines 142-144)
AckKeys == {<<"uuid", n>> : n \in 1..MaxGateFrames} \cup
           {<<"exec", m>> : m \in 1..MaxSends}

SocketAckWith(key) == Commit(onKernelSocketResponse(World, key))

SocketAck == \E key \in AckKeys : SocketAckWith(key)

\* receiveMessage, IPyWidgets_iopub_msg_handled (lines 162-164)
IopubHandledWith(n) == Commit(iopubMessageHandled(World, n))

IopubHandled == \E n \in 1..MaxGateFrames : IopubHandledWith(n)

\* receiveMessage, IPyWidgets_RegisterMessageHook (lines 150-152)
RegisterMessageHookWith(m) == Commit(registerMessageHook(World, m))

RegisterHookOf(M) == \E m \in M : RegisterMessageHookWith(m)

RegisterMessageHook == RegisterHookOf(HookIds)

\* receiveMessage, IPyWidgets_RemoveMessageHook (lines 154-156)
RemoveMessageHookWith(m, last) == Commit(possiblyRemoveMessageHook(World, m, last))

RemoveHookOf(M) == \E m \in M, last \in {"", "t"} : RemoveMessageHookWith(m, last)

RemoveMessageHook == RemoveHookOf(HookIds)

\* receiveMessage, IPyWidgets_MessageHookResult (lines 158-160)
MessageHookResultWith(r, isComm, result) ==
    Commit(handleMessageHookResponse(World, r, isComm, result))

HookResultsUpTo(max) ==
    \E r \in 1..max, isComm \in BOOLEAN, result \in BOOLEAN :
        MessageHookResultWith(r, isComm, result)

MessageHookResult == HookResultsUpTo(MaxHookCalls)

\* ------------------------------------------------- the kernel's traffic
Frames == [binary : BOOLEAN, mirror : BOOLEAN, widget : BOOLEAN,
           type : FrameTypes, comm : CommIds, malformed : BOOLEAN]

\* the mirrored text frames that carry no widget marker
PlainFrames == {f \in Frames : ~f.binary /\ f.mirror /\ ~f.widget /\ ~f.malformed}

\* the kernel ids of the live kernel connections
LiveKernelIds ==
    {sessionKernelId[k] : k \in {j \in Kernels : kernelState[j] = "started"}} \ {0}

\* another extension registers or removes a comm target on a live kernel
\* connection (lines 31-41)
ThirdPartyRegister ==
    \E id \in LiveKernelIds, targetName \in TargetNames \ {DefaultCommTarget} :
        Commit(registerCommTargetFor3rdPartyExtensions(World, id, targetName))

ThirdPartyRemove ==
    \E id \in LiveKernelIds, targetName \in TargetNames \ {DefaultCommTarget} :
        Commit(removeCommTargetFor3rdPartyExtensions(World, id, targetName))

\* A kernel socket hands its frames to the receive hooks one at a time: it
\* awaits the promise a hook returns before it delivers the next frame (the
\* gate stalls the inbound flow that way).
SocketIdle(id) == \A p \in receiving : p[2] # id

\* the socket of a live kernel connection that carries the receive hook
\* delivers a frame of F to it (lines 262-264)
FrameWith(id, f, max) ==
    /\ id \in LiveKernelIds
    /\ frames < max
    /\ socketHooks[id] > 0
    /\ SocketIdle(id)
    /\ Commit([onKernelSocketMessage(World, f) EXCEPT
                  !.receiving = @ \cup {<<frames + 1, id>>}])

FramesUpTo(F, max) == \E id \in KernelIds, f \in F : FrameWith(id, f, max)

KernelFrameOf(F) == FramesUpTo(F, MaxFrames)

KernelFrame == KernelFrameOf(Frames)

\* the frames a kernel socket is asked to send
SendFrames == [binary : BOOLEAN, execute : BOOLEAN, mirror : BOOLEAN]

\* A socket calls its send hooks for one frame at a time and sends the frame
\* when the hooks have returned.
SendIdle(id) == \A p \in sending : p[2] # id

\* the socket of a live kernel connection that carries the send hook is
\* asked to send frame f and calls the hook (lines 262-265)
SendWith(id, f) ==
    /\ id \in LiveKernelIds
    /\ sends < MaxSends
    /\ socketHooks[id] > 0
    /\ SendIdle(id)
    /\ Commit([mirrorSend(World, f) EXCEPT
                  !.sending = @ \cup {<<sends + 1, id>>}])

SendHook == \E id \in KernelIds, f \in SendFrames : SendWith(id, f)

\* a live kernel connection that carries a message hook calls it for an iopub
\* message t or u whose parent is the hook's message id (line 553)
HookCallWith(c, msgId, max) ==
    /\ c \in connHooks
    /\ c[1] \in LiveKernelIds
    /\ hookCalls < max
    /\ Commit(messageHookCallback(World, c[2], msgId))

HookCallsUpTo(max) ==
    \E c \in KernelIds \X HookIds, msgId \in {"t", "u"} : HookCallWith(c, msgId, max)

HookCall == HookCallsUpTo(MaxHookCalls)

Next ==
    \/ CreateKernel
    \/ StartKernel
    \/ SocketChange
    \/ KernelRestarted
    \/ DisposeKernel
    \/ Ready
    \/ RawSend
    \/ RegisterCommTarget
    \/ ThirdPartyRegister
    \/ ThirdPartyRemove
    \/ Dispose
    \/ SocketAck
    \/ IopubHandled
    \/ RegisterMessageHook
    \/ RemoveMessageHook
    \/ MessageHookResult
    \/ KernelFrame
    \/ SendHook
    \/ HookCall

Spec == Init /\ [][Next]_vars

\* The kernel provider, the kernels, Ready and disposal
Environment ==
    \/ CreateKernel
    \/ StartKernel
    \/ SocketChange
    \/ KernelRestarted
    \/ DisposeKernel
    \/ Ready
    \/ Dispose

\* The outbound queue in its environment
NextOutbound == Environment \/ RawSend
SpecOutbound == Init /\ [][NextOutbound]_vars

\* The waits (correlation table, gate, hook decisions) in their environment
NextWaits ==
    \/ Environment
    \/ SocketAck
    \/ IopubHandled
    \/ RegisterMessageHook
    \/ KernelFrameOf(PlainFrames)
    \/ HookCall
SpecWaits == Init /\ [][NextWaits]_vars

\* The gate in its environment: one kernel object, its connections, the
\* mirrored text frames and the Render Surface's acknowledgements and reports
TextFrames == {f \in Frames : ~f.binary /\ f.mirror /\ ~f.malformed}

NextGate ==
    \/ CreateKernel
    \/ StartKernel
    \/ SocketChange
    \/ FramesUpTo(TextFrames, MaxGateFrames)
    \/ SocketAck
    \/ IopubHandled
SpecGate == Init /\ [][NextGate]_vars

\* The send hook in its environment: the frames that carry the widget marker,
\* the frames to send and the Render Surface's acknowledgements
WidgetFrames == {f \in TextFrames : f.widget /\ f.type = "other"}

NextSend ==
    \/ Environment
    \/ FramesUpTo(WidgetFrames, 1)
    \/ SendHook
    \/ SocketAck
SpecSend == Init /\ [][NextSend]_vars

\* The hook commands in their environment, for two hook message ids
HookCommandIds == HookIds \cup {"q"}

NextHooks ==
    \/ Environment
    \/ RegisterHookOf(HookCommandIds)
    \/ RemoveHookOf(HookCommandIds)
SpecHooks == Init /\ [][NextHooks]_vars

\* The hook decisions in their environment: one kernel object, its
\* connections, a mirrored frame, the hook commands, the calls of the hook
\* and the Render Surface's responses
StreamFrames == {f \in PlainFrames : f.type = "other"}

NextDecisions ==
    \/ CreateKernel
    \/ StartKernel
    \/ SocketChange
    \/ FramesUpTo(StreamFrames, 1)
    \/ SocketAck
    \/ RegisterMessageHook
    \/ RemoveMessageHook
    \/ HookCallsUpTo(MaxDecisions)
    \/ HookResultsUpTo(MaxDecisions)
SpecDecisions == Init /\ [][NextDecisions]_vars

\* The first attachment in its environment: the raw sends that queue up and
\* the hook registrations
NextAttach ==
    \/ Environment
    \/ RawSend
    \/ RegisterMessageHook
SpecAttach == Init /\ [][NextAttach]_vars

\* The two hooks in their environment: one kernel object, its connections,
\* frames of every kind to receive and to send and the Render Surface's
\* acknowledgements and reports
NextFrames ==
    \/ CreateKernel
    \/ StartKernel
    \/ SocketChange
    \/ KernelFrame
    \/ SendHook
    \/ SocketAck
    \/ IopubHandled
SpecFrames == Init /\ [][NextFrames]_vars

\* Malformed payloads and frames: one kernel object, its connections, the raw
\* sends and the frames of every kind
NextMalformed ==
    \/ CreateKernel
    \/ StartKernel
    \/ SocketChange
    \/ RawSend
    \/ KernelFrame
SpecMalformed == Init /\ [][NextMalformed]_vars

\* The widget usage flag in its environment: frames of every kind and the
\* Render Surface's acknowledgements and reports
NextSticky ==
    \/ Environment
    \/ FramesUpTo(Frames, 1)
    \/ SocketAck
    \/ IopubHandled
SpecSticky == Init /\ [][NextSticky]_vars

\* The comm targets in their environment
NextTargets ==
    \/ Environment
    \/ RegisterCommTarget
    \/ ThirdPartyRegister
    \/ ThirdPartyRemove
SpecTargets == Init /\ [][NextTargets]_vars

\* ====================================================== the properties
SeqsOf(q) == [i \in 1..Len(q) |-> q[i].seq]

\* the entries a step appended to sent
Delivered == SubSeq(sent', Len(sent) + 1, Len(sent'))

\* the payload a step queued, if any
Queued == IF queued' > queued THEN << queued' >> ELSE << >>

RestartNotices(p) ==
    Cardinality({i \in 1..Len(p) : p[i].message = "IPyWidgets_onRestartKernel"})

\* A restart is processed: the listener of onDidKernelSocketChange runs after
\* the Dispatcher has connected to a kernel at least once.
RestartProcessed ==
    /\ kernelWasConnectedAtLeastOnce
    /\ \E k \in Kernels :
          /\ socketChangeListener.kernel = k
          /\ \E id \in NewKernelIds(k), ok \in Accepts : SocketChangeWith(k, id, ok)

\* every hand-off of a step takes a payload that was in the queue or that the
\* step itself queued
DeliveredFromQueue ==
    \A i \in 1..Len(Delivered) :
        Delivered[i].seq \in Range(SeqsOf(pendingMessages)) \cup Range(Queued)

\* the fields of the Dispatcher
fields == << kernel, disposables, kernelRestartHandlerAttached,
             kernelWasConnectedAtLeastOnce, disposed, pendingMessages,
             subscribedToKernelSocket, commTargetsRegistered,
             pendingTargetNames, kernelSocketHandlers, socketChangeListener,
             waitingMessageIds, messageHooks, pendingHookRemovals,
             messageHookRequests, outputWidgetIds, fullHandleMessage,
             isUsingIPyWidgets >>

\* everything but what the last handler posted and called
state == << fields, connHooks, resolved, rejected, hookDecisions, suspended,
            frames, hookCalls, receiving, closed, sends, sending,
            providerKernel, kernelState,
            sessionKernelId,
            lastKernelId, KernelSocketMap, socketHooks, kernelCommTargets,
            thirdPartyTargets,
            connTargets, onDisposedHandlers, restartHandlerKernel, sent,
            queued, disposeCalls, escaped >>

\* C1: the payloads handed to the kernel channel appear in the order in which
\* they were queued, each at most once, whatever kernel-live, dispatch-failure
\* and restart events come in between.
C1_FifoDelivery ==
    \A i, j \in 1..Len(sent) : i < j => sent[i].seq < sent[j].seq

\* two payloads were handed off, to two kernel connections: a socket change
\* came in between
C1_Witness ==
    /\ Len(sent) = 2
    /\ sent[1].kernelId # sent[2].kernelId

\* C2: a restart discards PendingOutbound without delivery: the queue is empty
\* after the restart is processed, the restart hands nothing to the kernel
\* channel, and no step ever hands off a payload that is not in the queue.
C2_RestartDiscardsQueue ==
    [][ /\ RestartProcessed => (pendingMessages' = << >> /\ sent' = sent)
        /\ DeliveredFromQueue ]_vars

\* a payload was queued that is neither pending nor handed off, and the last
\* handler posted the restart notice
C2_Witness ==
    /\ queued > Len(sent) + Len(pendingMessages)
    /\ RestartNotices(posted) = 1

\* C3: a payload leaves PendingOutbound only by a successful hand-off: outside
\* a restart, the payloads a step hands off followed by the queue it leaves are
\* the queue it found followed by the payload it queued (so a hand-off that
\* throws stops the flush with the failing head and all behind it in place),
\* and no exception leaves the handler.
C3_FlushStopsOnThrow ==
    [][ ~RestartProcessed =>
          /\ SeqsOf(Delivered) \o SeqsOf(pendingMessages') =
                 SeqsOf(pendingMessages) \o Queued
          /\ ~escaped' ]_vars

\* the second payload, well formed, is still queued behind a delivered first
\* one while the kernel connection that took the first one is live: its
\* hand-off threw
C3_Witness ==
    /\ Len(sent) = 1
    /\ Len(pendingMessages) = 1
    /\ pendingMessages[1].kind # "malformed"
    /\ KernelIdOf(World, kernel) = sent[1].kernelId

\* C4: while this.kernel, its session or its kernel connection is undefined, a
\* raw-send command only appends its payload: nothing is handed to the kernel
\* channel and the queue grows by exactly one.
C4_AccumulatesWithoutKernel ==
    [][ (RawSend /\ ~HasConnection(World, kernel)) =>
          /\ sent' = sent
          /\ Len(pendingMessages') = Len(pendingMessages) + 1
          /\ SubSeq(pendingMessages', 1, Len(pendingMessages)) = pendingMessages
      ]_vars

\* two payloads wait and no kernel connection is known
C4_Witness ==
    /\ Len(pendingMessages) = 2
    /\ sent = << >>
    /\ ~HasConnection(World, kernel)

\* the queue was flushed whole, in order
FlushedWhole ==
    /\ pendingMessages' = << >>
    /\ SeqsOf(sent') = SeqsOf(sent) \o SeqsOf(pendingMessages)

\* C5: payloads wait while the Dispatcher knows no live kernel; the kernel
\* start notification or Ready then makes a kernel live for it, with every
\* payload well formed and no hand-off throwing; then all of them are handed
\* off in queue order and the queue ends empty.
C5_FlushWhenKernelBecomesLive ==
    [][ ( /\ ~disposed
          /\ \/ \E k \in Kernels : \E id \in NewKernelIds(k) :
                    StartKernelWith(k, id, Len(pendingMessages) + 1)
             \/ ReadyWith(Len(pendingMessages) + 1)
          /\ pendingMessages # << >>
          /\ \A i \in 1..Len(pendingMessages) : pendingMessages[i].kind # "malformed"
          /\ ~HasConnection(World, kernel)
          /\ HasConnection(World, kernel)' ) => FlushedWhole ]_vars

\* two payloads queued before any connection were handed off and nothing waits
C5_Witness ==
    /\ Len(sent) = 2
    /\ \A i \in 1..Len(sent) : ~sent[i].connected
    /\ pendingMessages = << >>

\* C6, as stated: a payload queued after a kernel has been connected is never
\* handed to the kernel connection that a later restart replaces, and the
\* restart posts exactly one restart notice.
C6_NeverUnderOldKernelId ==
    [][ RestartProcessed =>
          /\ \A i \in 1..Len(sent') :
                sent'[i].connected =>
                    sent'[i].kernelId # socketChangeListener.oldKernelId
          /\ RestartNotices(posted') = 1 ]_vars

\* C6, amended: a payload queued after a kernel has been connected that is
\* still in PendingOutbound when the restart is processed is not handed to the
\* kernel channel, by the restart or by any later step, and the restart posts
\* exactly one restart notice.
C6_PendingAtRestartNeverSent ==
    [][ /\ RestartProcessed =>
            /\ \A i \in 1..Len(pendingMessages) :
                  pendingMessages[i].connected =>
                      /\ pendingMessages[i].seq \notin Range(SeqsOf(sent'))
                      /\ pendingMessages[i].seq \notin Range(SeqsOf(pendingMessages'))
            /\ RestartNotices(posted') = 1
        /\ DeliveredFromQueue ]_vars

\* the first payload was queued after a connection and handed off, the second
\* one, queued later, is neither pending nor handed off, and the last handler
\* posted the restart notice
C6_Witness ==
    /\ queued = 2
    /\ Len(sent) = 1
    /\ sent[1].seq = 1
    /\ sent[1].connected
    /\ pendingMessages = << >>
    /\ RestartNotices(posted) = 1

\* C7: a restart resolves, and does not reject, every outstanding
\* WaitingMessage signal and hook decision request, leaves waitingMessageIds,
\* messageHookRequests and messageHooks empty and posts the restart notice
\* exactly once.
C7_RestartResolvesWaits ==
    [][ RestartProcessed =>
          /\ waitingMessageIds \cup messageHookRequests \subseteq resolved'
          /\ (waitingMessageIds \cup messageHookRequests) \cap rejected' = {}
          /\ waitingMessageIds' = {}
          /\ messageHookRequests' = {}
          /\ messageHooks' = {}
          /\ RestartNotices(posted') = 1 ]_vars

\* the last handler posted the restart notice, a hook decision was resolved to
\* false (only a restart does that here) and a frame's signal is resolved
C7_Witness ==
    /\ RestartNotices(posted) = 1
    /\ <<1, FALSE>> \in hookDecisions
    /\ <<"uuid", 1>> \in resolved
    /\ messageHooks = {}

\* C8: dispose() leaves no WaitingMessage entry, no hook decision request, no
\* open gate and no suspended call behind.
C8_DisposeResolvesWaits ==
    [][ Dispose =>
          /\ waitingMessageIds' = {}
          /\ messageHookRequests' = {}
          /\ fullHandleMessage' = None
          /\ suspended' = {} ]_vars

\* C9: dispose() leaves disposed set and disposables empty with every
\* registered disposable disposed exactly once, and a call that finds the
\* Dispatcher disposed with nothing registered since changes nothing.
C9_DisposeIdempotent ==
    [][ Dispose =>
          /\ disposed'
          /\ disposables' = << >>
          /\ disposeCalls'["onDidStartKernel"] = 1
          /\ disposeCalls'["onRestarted"] =
                 (IF kernelRestartHandlerAttached THEN 1 ELSE 0)
          /\ (disposed /\ disposables = << >>) => UNCHANGED state ]_vars

\* disposed, with both disposables disposed
C9_Witness ==
    /\ disposed
    /\ disposables = << >>
    /\ disposeCalls["onRestarted"] = 1
    /\ disposeCalls["onDidStartKernel"] = 1

\* C10: after dispose() a socket-change notification posts nothing to the
\* Render Surface and changes no field of the Dispatcher.
C10_DisposeReleasesSubscriptions ==
    [][ (disposed /\ SocketChange) =>
          /\ posted' = << >>
          /\ UNCHANGED fields ]_vars

\* C11: the gate record of a message id is not replaced or lost before that
\* message has been reported as fully handled: an open gate stays as it is
\* until its completion signal is resolved.
C11_GateNotReplaced ==
    [][ fullHandleMessage # None =>
          \/ fullHandleMessage' = fullHandleMessage
          \/ <<"gate", fullHandleMessage.promise>> \in resolved' ]_vars

\* a call of the receive hook is suspended
Suspended(call, s) == \E c \in s : c.call = call

\* C12: a mirrored comm_msg update that targets a tracked Output widget comm
\* id suspends the receive hook's call, and a suspended call of the receive
\* hook ends only when the Render Surface has reported that frame's message
\* id as fully handled: the socket ack alone does not end it.
C12_UpdateWaitsForReport ==
    [][ /\ \A id \in KernelIds, f \in TextFrames :
              ( /\ FrameWith(id, f, MaxGateFrames)
                /\ f.type = "comm_msg"
                /\ f.comm \in outputWidgetIds )
              => Suspended(<<"receive", frames'>>, suspended')
        /\ \A c \in suspended :
              (c.call[1] = "receive" /\ ~Suspended(c.call, suspended'))
              => <<"gate", c.call[2]>> \in resolved' ]_vars

\* an update was acknowledged, then reported as fully handled, and its call
\* has returned, leaving no gate
C12_Witness ==
    /\ \E n \in 1..MaxGateFrames :
          /\ <<"uuid", n>> \in resolved
          /\ <<"gate", n>> \in resolved
    /\ suspended = {}
    /\ fullHandleMessage = None
    /\ ~escaped

\* C13: a comm_close for a tracked comm id removes the id from
\* outputWidgetIds, and a comm_msg update for a comm id that is not tracked
\* opens no gate and does not suspend the receive hook's call.
C13_CloseEndsTracking ==
    [][ \A id \in KernelIds, f \in TextFrames :
          FrameWith(id, f, MaxGateFrames) =>
            /\ (f.type = "comm_close" /\ f.comm \in outputWidgetIds)
                   => f.comm \notin outputWidgetIds'
            /\ (f.type = "comm_msg" /\ f.comm \notin outputWidgetIds)
                   => /\ fullHandleMessage' = fullHandleMessage
                      /\ ~Suspended(<<"receive", frames'>>, suspended') ]_vars

\* the tracking of X was ended by a comm_close and the last frame, an update
\* that targets X, was forwarded with no gate open and no call suspended
C13_Witness ==
    /\ "X" \in closed
    /\ "X" \notin outputWidgetIds
    /\ Len(posted) = 1
    /\ posted[1].message = "IPyWidgets_msg"
    /\ posted[1].data.type = "comm_msg"
    /\ posted[1].data.comm = "X"
    /\ fullHandleMessage = None
    /\ suspended = {}

\* C14: a fully-handled report whose id is not the id of an open gate is
\* ignored: nothing is thrown, the gate is neither resolved nor cleared, and
\* nothing else changes.
C14_UnmatchedReportIgnored ==
    [][ \A n \in 1..MaxGateFrames :
          (IopubHandledWith(n) /\ fullHandleMessage.id # n)
          => (UNCHANGED state /\ posted' = << >>) ]_vars

\* a gate is open for the third frame while a call still waits on the gate
\* of the second: a report for either of the first two ids matches no gate
C14_Witness ==
    /\ fullHandleMessage # None
    /\ fullHandleMessage.id = 3
    /\ \E c \in suspended : c.at = "gate" /\ c.call = <<"receive", 2>>

C16_RegisteredOncePerConnection ==
    [][ /\ \A c \in DOMAIN connTargets : connTargets'[c] <= 1
        /\ \A c \in thirdPartyTargets : connTargets'[c] <= connTargets[c] ]_vars

\* the custom name was requested again after its registration (it waits in
\* pendingTargetNames) and the connection still got it once
C16_Witness ==
    /\ Has(commTargetsRegistered, "custom")
    /\ Has(pendingTargetNames, "custom")
    /\ HasConnection(World, kernel)
    /\ connTargets[<<KernelIdOf(World, kernel), "custom">>] = 1

\* C17: on a kernel-restarted notification, with the Dispatcher not disposed
\* and the kernel's session present, every name registered before is
\* registered again after the handler, no name stays pending, and the live
\* kernel connection got every such name anew (the predefined one and those
\* of the process-wide table apart).
C17_RestartReregisters ==
    [][ (KernelRestarted /\ ~disposed /\ HasSession(World, kernel))
        => /\ Range(commTargetsRegistered) \subseteq Range(commTargetsRegistered')
           /\ pendingTargetNames' = << >>
           /\ \A name \in Range(commTargetsRegistered) \ {DefaultCommTarget} :
                 LET c == <<KernelIdOf(World, kernel), name>> IN
                 (c[1] # 0 /\ c \notin thirdPartyTargets) => connTargets'[c] = 1
      ]_vars

\* the custom name, pending again since a repeated request, went through the
\* restart handler ahead of the predefined one and is registered with the
\* live connection
C17_Witness ==
    /\ commTargetsRegistered = << "custom", DefaultCommTarget >>
    /\ pendingTargetNames = << >>
    /\ HasConnection(World, kernel)
    /\ connTargets[<<KernelIdOf(World, kernel), "custom">>] = 1

\* the mirror-execute notification of the request with msg_id m
MirrorExecute(m) == [message |-> "IPyWidgets_mirror_execute", id |-> m]

\* C18: while isUsingIPyWidgets is unset, the send hook's call for a mirrored
\* shell execute_request posts the mirror-execute notification, registers a
\* WaitingMessage under the request's msg_id and returns without waiting.
C18_SendProceedsWithoutWidgets ==
    [][ \A id \in KernelIds, f \in SendFrames :
          ( /\ SendWith(id, f)
            /\ f.execute /\ f.mirror
            /\ ~isUsingIPyWidgets )
          => /\ posted' = << MirrorExecute(sends') >>
             /\ <<"exec", sends'>> \in waitingMessageIds'
             /\ ~Suspended(<<"send", sends'>>, suspended')
             /\ sending' = sending ]_vars

C18_Witness ==
    /\ ~isUsingIPyWidgets
    /\ sends > 0
    /\ posted = << MirrorExecute(sends) >>
    /\ <<"exec", sends>> \in waitingMessageIds
    /\ ~Suspended(<<"send", sends>>, suspended)

\* C19: once isUsingIPyWidgets is set, the send hook's call for a mirrored
\* shell execute_request is suspended on the WaitingMessage of the request's
\* msg_id; a suspended call of the send hook ends only when the Render
\* Surface acknowledges that msg_id or a restart resolves every wait; and no
\* such request is mirrored while the call for an earlier one is suspended.
C19_SendWaitsForAck ==
    [][ /\ \A id \in KernelIds, f \in SendFrames :
              ( /\ SendWith(id, f)
                /\ f.execute /\ f.mirror
                /\ isUsingIPyWidgets )
              => /\ posted' = << MirrorExecute(sends') >>
                 /\ <<"exec", sends'>> \in waitingMessageIds'
                 /\ Suspended(<<"send", sends'>>, suspended')
                 /\ \A c \in suspended : c.call[1] # "send"
        /\ \A c \in suspended :
              (c.call[1] = "send" /\ c \notin suspended')
              => SocketAckWith(c.on) \/ RestartProcessed ]_vars

C19_Witness ==
    /\ isUsingIPyWidgets
    /\ sends > 0
    /\ Suspended(<<"send", sends>>, suspended)
    /\ <<"exec", sends>> \in waitingMessageIds
    /\ posted = << MirrorExecute(sends) >>

\* the acknowledgement of a hook command
OperationHandled(m, type) ==
    [message |-> "IPyWidgets_ExtensionOperationHandled", msgId |-> m, type |-> type]

\* the hooks registered with the kernel connections are the same after the step
NoHookChange ==
    messageHooks' = messageHooks /\ connHooks' = connHooks /\ kernelCalls' = << >>

\* C20: every register-message-hook and every remove-message-hook command is
\* answered with exactly one operation-handled acknowledgement that carries
\* the command's hook message id, whatever the outcome; without a kernel
\* connection the command leaves messageHooks and the hooks of the kernel
\* connections as they are and is acknowledged all the same.
C20_HookCommandsAcknowledged ==
    [][ /\ \A m \in HookCommandIds :
              RegisterMessageHookWith(m)
              => /\ posted' = << OperationHandled(m, "IPyWidgets_RegisterMessageHook") >>
                 /\ ~HasConnection(World, kernel) => NoHookChange
        /\ \A m \in HookCommandIds, last \in {"", "t"} :
              RemoveMessageHookWith(m, last)
              => /\ posted' = << OperationHandled(m, "IPyWidgets_RemoveMessageHook") >>
                 /\ ~HasConnection(World, kernel) => NoHookChange ]_vars

\* a register command was acknowledged although no kernel connection exists
C20_Witness ==
    /\ ~HasConnection(World, kernel)
    /\ messageHooks = {}
    /\ connHooks = {}
    /\ posted = << OperationHandled("q", "IPyWidgets_RegisterMessageHook") >>

\* the decisions taken for the r-th call of the hook
Decisions(r, ds) == {d \in ds : d[1] = r}

\* C21: a hook decision response that names an outstanding request resolves
\* the request's decision to the reported result, or to true when the
\* reported message type contains "comm", and removes the request from
\* messageHookRequests.
C21_ResponseDecides ==
    [][ \A r \in 1..MaxDecisions, isComm \in BOOLEAN, result \in BOOLEAN :
          ( /\ MessageHookResultWith(r, isComm, result)
            /\ <<"hook", r>> \in messageHookRequests )
          => /\ <<"hook", r>> \in resolved'
             /\ Decisions(r, hookDecisions') =
                    {<<r, IF isComm THEN TRUE ELSE result>>}
             /\ messageHookRequests' = messageHookRequests \ {<<"hook", r>>} ]_vars

\* the second call of the hook was decided to proceed and the first one not
C21_Witness ==
    /\ <<2, TRUE>> \in hookDecisions
    /\ <<1, FALSE>> \in hookDecisions
    /\ <<"hook", 2>> \in resolved
    /\ messageHookRequests = {}
    /\ messageHooks # {}

\* C22: a socket acknowledgement or a hook decision response whose id has no
\* waiter (never issued, answered before, or flushed by a restart) is
\* ignored: nothing is thrown, no signal is resolved, and waitingMessageIds,
\* messageHookRequests and everything else stay as they are.
C22_UnmatchedResponseIgnored ==
    [][ /\ \A key \in AckKeys :
              (SocketAckWith(key) /\ key \notin waitingMessageIds)
              => (UNCHANGED state /\ posted' = << >>)
        /\ \A r \in 1..MaxDecisions, isComm \in BOOLEAN, result \in BOOLEAN :
              ( /\ MessageHookResultWith(r, isComm, result)
                /\ <<"hook", r>> \notin messageHookRequests )
              => (UNCHANGED state /\ posted' = << >>) ]_vars

\* the first frame was acknowledged and the first call of the hook flushed by
\* a restart, the second call of the hook has not been made: a response for
\* any of them finds no waiter, while the frame of a later connection waits
C22_Witness ==
    /\ <<"uuid", 1>> \in resolved /\ <<"uuid", 1>> \notin waitingMessageIds
    /\ <<1, FALSE>> \in hookDecisions
    /\ hookCalls = 1
    /\ messageHookRequests = {}

\* C23: a restart releases every call that waits for a signal of the
\* Dispatcher: when a restart has been processed, no call of the receive hook,
\* of the send hook or of the hook callback is suspended any more, a call
\* suspended on an open gate included.
C23_RestartReleasesEveryWait ==
    [][ RestartProcessed => suspended' = {} ]_vars

\* a restart has been processed while a call of the receive hook was
\* suspended on the gate of its frame
C23_Witness ==
    /\ RestartNotices(posted) = 1
    /\ \E c \in suspended : c.at = "gate" /\ c.call[1] = "receive"

\* the kernel frames a step forwarded to the Render Surface
FramesPosted(p) ==
    {i \in 1..Len(p) : p[i].message \in {"IPyWidgets_msg", "IPyWidgets_binary_msg"}}

\* C24: while a gate is open, from its opening to the report of its message
\* id as fully handled, no step forwards a kernel frame to the Render Surface.
C24_GateStallsForwarding ==
    [][ fullHandleMessage # None => FramesPosted(posted') = {} ]_vars

\* a frame has just been forwarded while the gate of an earlier frame is open
C24_Witness ==
    /\ fullHandleMessage # None
    /\ fullHandleMessage.id < frames
    /\ FramesPosted(posted) # {}
    /\ posted[1].id = frames

\* C25: a request for a comm target that finds the Dispatcher with a live
\* kernel connection drains the pending names: after it pendingTargetNames is
\* empty and the requested name, like every name requested before, is in
\* commTargetsRegistered, also when the name was registered already.
C25_PendingDrained ==
    [][ \A targetName \in TargetNames, ok \in Accepts :
          ( /\ RegisterCommTargetWith(targetName, ok)
            /\ HasConnection(World, kernel)' )
          => /\ pendingTargetNames' = << >>
             /\ Range(pendingTargetNames) \cup {targetName}
                    \subseteq Range(commTargetsRegistered') ]_vars

\* with a live kernel connection a registered name blocks the queue of the
\* pending names, and a name requested after it is not registered
C25_Witness ==
    /\ HasConnection(World, kernel)
    /\ pendingTargetNames = << DefaultCommTarget, "custom" >>
    /\ commTargetsRegistered = << DefaultCommTarget >>

\* the hook-call request of the r-th call of the hook callback
MessageHookCall(r) == [message |-> "IPyWidgets_MessageHookCall", id |-> r]

\* C26: a call of the hook callback for a message whose parent has no hook in
\* messageHooks is decided "proceed" at once, posts nothing and adds nothing
\* to messageHookRequests; a call for a parent with a hook posts exactly one
\* hook-call request under a fresh id and stays undecided, and an undecided
\* request leaves messageHookRequests only with a response to it or a restart.
C26_HookCallDecision ==
    [][ /\ \A c \in KernelIds \X HookIds, msgId \in {"t", "u"} :
              HookCallWith(c, msgId, MaxDecisions)
              => IF c[2] \notin messageHooks
                 THEN /\ posted' = << >>
                      /\ messageHookRequests' = messageHookRequests
                      /\ <<"hook", hookCalls'>> \in resolved'
                      /\ Decisions(hookCalls', hookDecisions') = {<<hookCalls', TRUE>>}
                 ELSE /\ posted' = << MessageHookCall(hookCalls') >>
                      /\ <<"hook", hookCalls'>> \notin messageHookRequests \cup resolved
                      /\ messageHookRequests' =
                             messageHookRequests \cup {<<"hook", hookCalls'>>}
                      /\ <<"hook", hookCalls'>> \notin resolved'
                      /\ Decisions(hookCalls', hookDecisions') = {}
        /\ \A q \in messageHookRequests :
              /\ Decisions(q[2], hookDecisions) = {}
              /\ q \notin messageHookRequests'
                 => \/ RestartProcessed
                    \/ \E isComm \in BOOLEAN, result \in BOOLEAN :
                          MessageHookResultWith(q[2], isComm, result) ]_vars

\* the second call of the hook has just asked the Render Surface and is
\* undecided; the first call was made with the hook registered
C26_Witness ==
    /\ hookCalls = 2
    /\ posted = << MessageHookCall(2) >>
    /\ <<"hook", 2>> \in messageHookRequests
    /\ Decisions(2, hookDecisions) = {}
    /\ <<"hook", 1>> \in messageHookRequests

\* the hook of message id m is installed: remembered in messageHooks and
\* registered with the live kernel connection of the Dispatcher's kernel
Installed(m, hooks, conn, id) == m \in hooks /\ <<id, m>> \in conn

\* C27: a remove command with a trigger id leaves the hook installed and
\* records the pending removal; the recorded removal is carried out only when
\* a message with the trigger id passes through the hook callback, and on that
\* pass the hook-call request is posted first, then the hook is removed from
\* messageHooks and from the kernel connection and the record is deleted; a
\* remove command without a trigger id removes the hook at once.
C27_DeferredRemoval ==
    [][ /\ \A m \in HookIds :
              RemoveMessageHookWith(m, "t")
              => /\ messageHooks' = messageHooks
                 /\ connHooks' = connHooks
                 /\ pendingHookRemovals' = pendingHookRemovals \cup {<<"t", m>>}
        /\ \A m \in HookIds :
              ( /\ RemoveMessageHookWith(m, "")
                /\ Installed(m, messageHooks, connHooks, KernelIdOf(World, kernel)) )
              => /\ m \notin messageHooks'
                 /\ <<KernelIdOf(World, kernel), m>> \notin connHooks'
                 /\ pendingHookRemovals' = pendingHookRemovals
        /\ \A p \in pendingHookRemovals :
              p \notin pendingHookRemovals'
              => \E c \in KernelIds \X HookIds : HookCallWith(c, p[1], MaxDecisions)
        /\ \A c \in KernelIds \X HookIds, m \in HookIds :
              ( /\ HookCallWith(c, "t", MaxDecisions)
                /\ <<"t", m>> \in pendingHookRemovals
                /\ Installed(m, messageHooks, connHooks, KernelIdOf(World, kernel)) )
              => /\ c[2] \in messageHooks => posted' = << MessageHookCall(hookCalls') >>
                 /\ m \notin messageHooks'
                 /\ <<KernelIdOf(World, kernel), m>> \notin connHooks'
                 /\ <<"t", m>> \notin pendingHookRemovals' ]_vars

\* the message with the trigger id has just passed: its hook-call request is
\* posted and waits for the decision, the hook is removed and no removal is
\* pending
C27_Witness ==
    /\ hookCalls > 0
    /\ posted = << MessageHookCall(hookCalls) >>
    /\ <<"hook", hookCalls>> \in messageHookRequests
    /\ messageHooks = {}
    /\ \A id \in LiveKernelIds : \A m \in HookIds : <<id, m>> \notin connHooks
    /\ pendingHookRemovals = {}

\* the calls of kernel.registerMessageHook among the calls of a step
Registrations(calls) ==
    {i \in 1..Len(calls) : calls[i].method = "registerMessageHook"}

\* C28: a hook is installed on the kernel connection only when messageHooks
\* has none for the message id and a kernel connection is live: a register
\* command for an id that is in messageHooks (registered, and neither removed
\* nor dropped by a restart since) makes no call on the kernel connection and
\* leaves messageHooks as it is, and every call of kernel.registerMessageHook
\* is made on a live connection for an id messageHooks did not hold, once.
C28_InstalledOnce ==
    [][ /\ \A m \in HookIds :
              (RegisterMessageHookWith(m) /\ m \in messageHooks)
              => /\ kernelCalls' = << >>
                 /\ messageHooks' = messageHooks
                 /\ connHooks' = connHooks
        /\ \A i \in Registrations(kernelCalls') :
              /\ kernelCalls'[i].msgId \notin messageHooks
              /\ kernelCalls'[i].msgId \in messageHooks'
              /\ kernelCalls'[i].kernelId # 0
              /\ kernelCalls'[i].kernelId = KernelIdOf(World, kernel)
              /\ <<kernelCalls'[i].kernelId, kernelCalls'[i].msgId>> \in connHooks'
        /\ Cardinality(Registrations(kernelCalls')) <= 1 ]_vars

\* a register command for an installed hook has just been acknowledged
\* without a call on the kernel connection
C28_Witness ==
    /\ posted = << OperationHandled("p", "IPyWidgets_RegisterMessageHook") >>
    /\ kernelCalls = << >>
    /\ Installed("p", messageHooks, connHooks, KernelIdOf(World, kernel))

\* C29: as long as the Dispatcher has not attached to a kernel socket, no step
\* discards anything or posts the restart notice, the step of the first
\* attachment included: every queued payload is still queued or has been
\* handed to the kernel channel, and waitingMessageIds, messageHookRequests
\* and messageHooks lose nothing.
C29_NoDiscardBeforeFirstAttachment ==
    [][ ~kernelWasConnectedAtLeastOnce
        => /\ RestartNotices(posted') = 0
           /\ Range(SeqsOf(pendingMessages))
                  \subseteq Range(SeqsOf(pendingMessages')) \cup Range(SeqsOf(Delivered))
           /\ waitingMessageIds \subseteq waitingMessageIds'
           /\ messageHookRequests \subseteq messageHookRequests'
           /\ messageHooks \subseteq messageHooks' ]_vars

\* the first attachment has flushed the two payloads queued before it, and no
\* kernel connection was replaced so far
C29_Witness ==
    /\ kernelWasConnectedAtLeastOnce
    /\ lastKernelId = 1
    /\ queued = 2
    /\ Len(sent) = 2
    /\ pendingMessages = << >>
    /\ posted = << >>

\* the sockets that carry the Dispatcher's pair of hooks
HookedSockets == {id \in KernelIds : socketHooks[id] > 0}

\* C30: in every reachable state the Dispatcher's receive hook and send hook
\* are attached to at most one kernel socket, and once on it: the pair of the
\* old socket is removed when the pair of the new socket is attached.
C30_HooksOnOneSocket ==
    /\ Cardinality(HookedSockets) <= 1
    /\ \A id \in KernelIds : socketHooks[id] <= 1

\* after a restart the second socket carries the hooks and the first one,
\* which carried them, does not
C30_Witness ==
    /\ HookedSockets = {2}
    /\ kernelSocketHandlers[1] = "removed"
    /\ kernelSocketHandlers[2] = "attached"

\* what the classification of a frame may change
Classification == << outputWidgetIds, isUsingIPyWidgets, fullHandleMessage >>

\* C31: a kernel frame that shouldMessageBeMirroredWithRenderer rejects is
\* not forwarded to the Render Surface, as a text frame or as a binary frame,
\* and changes neither outputWidgetIds nor isUsingIPyWidgets nor the gate.
C31_UnmirroredFrameDropped ==
    [][ \A id \in KernelIds, f \in Frames :
          (FrameWith(id, f, MaxFrames) /\ ~shouldMessageBeMirroredWithRenderer(f))
          => /\ FramesPosted(posted') = {}
             /\ UNCHANGED Classification ]_vars

\* a binary frame that the predicate rejects has just been forwarded
C31_Witness ==
    /\ Len(posted) = 1
    /\ posted[1].message = "IPyWidgets_binary_msg"
    /\ ~shouldMessageBeMirroredWithRenderer(posted[1].data)

\* the notification that carries correlation id key was posted in p
Forwarded(key, p) ==
    \E i \in 1..Len(p) :
        /\ p[i].message \in (IF key[1] = "uuid"
                              THEN {"IPyWidgets_msg", "IPyWidgets_binary_msg"}
                              ELSE {"IPyWidgets_mirror_execute"})
        /\ p[i].id = key[2]

\* C32: a WaitingMessage entry is created only together with the post of the
\* notification that carries its id: every id a step adds to
\* waitingMessageIds is the correlation id of a frame forward or of a
\* mirror-execute notification the step posted.
C32_WaitingOnlyWhenForwarded ==
    [][ \A key \in waitingMessageIds' \ waitingMessageIds :
          Forwarded(key, posted') ]_vars

\* a text frame has just been dropped and its WaitingMessage entry is there
C32_Witness ==
    /\ frames > 0
    /\ <<"uuid", frames>> \in waitingMessageIds
    /\ posted = << >>
    /\ receiving = {}
    /\ resolved = {}
    /\ sends = 0

\* the payloads of queue q that can be deserialized
WellFormed(q) == {i \in 1..Len(q) : q[i].kind # "malformed"}

\* C33: a payload or frame whose deserialization throws is dropped and the
\* next one is processed: a flush on a live kernel connection that accepts
\* every hand-off leaves no well-formed payload queued, behind a malformed
\* one or otherwise, and the receive hook's call for a malformed frame does
\* not fail.
C33_MalformedSkipped ==
    [][ /\ \A kind \in PayloadKinds :
              ( /\ RawSendWith(kind, Len(pendingMessages) + 1)
                /\ HasConnection(World, kernel) )
              => WellFormed(pendingMessages') = {}
        /\ \A id \in KernelIds, f \in Frames :
              (FrameWith(id, f, MaxFrames) /\ f.malformed /\ ~escaped)
              => ~escaped' ]_vars

\* with a live kernel connection a well-formed payload is queued behind a
\* malformed one
C33_Witness ==
    /\ HasConnection(World, kernel)
    /\ Len(pendingMessages) = 2
    /\ pendingMessages[1].kind = "malformed"
    /\ pendingMessages[2].kind # "malformed"
    /\ pendingMessages[2].connected

C35_RestartDiscardsHookState ==
    [][ RestartProcessed
        => /\ messageHooks' = {}
           /\ messageHookRequests' = {}
           /\ pendingHookRemovals' = {} ]_vars

\* a restart has just been processed, the hooks are gone and the removal
\* recorded before it for trigger "t" is still pending
C35_Witness ==
    /\ RestartNotices(posted) = 1
    /\ lastKernelId = 2
    /\ messageHooks = {}
    /\ messageHookRequests = {}
    /\ pendingHookRemovals = {<<"t", "p">>}

\* C36: the gate is a single slot.  A frame that needs the full handling and
\* is classified while the gate is open for an earlier message takes the slot
\* over: the gate record becomes the later message's.  A fully-handled report
\* for the earlier message then matches no gate and changes nothing, and the
\* call suspended for the earlier message is released in the step that
\* reports the later message as fully handled, and in no other.
C36_GateSingleSlot ==
    [][ /\ \A id \in KernelIds, f \in TextFrames :
              ( /\ FrameWith(id, f, MaxGateFrames)
                /\ messageNeedsFullHandle(World, f)
                /\ fullHandleMessage # None )
              => /\ fullHandleMessage' # None
                 /\ fullHandleMessage'.id = frames'
        /\ \A c \in suspended :
              ( /\ c.call[1] = "receive"
                /\ fullHandleMessage # None
                /\ fullHandleMessage.id # c.call[2] )
              => /\ IopubHandledWith(c.call[2])
                     => (UNCHANGED state /\ posted' = << >>)
                 /\ ~Suspended(c.call, suspended')
                     <=> IopubHandledWith(fullHandleMessage.id) ]_vars

\* the gate was taken over by the third frame, the third frame was
\* acknowledged and reported as fully handled and its call has returned; the
\* call of the second frame still waits on the gate it opened
C36_Witness ==
    /\ fullHandleMessage = None
    /\ <<"uuid", 3>> \in resolved
    /\ <<"gate", 3>> \in resolved
    /\ <<"gate", 2>> \notin resolved
    /\ suspended = {[call |-> <<"receive", 2>>, at |-> "gate", on |-> <<"gate", 2>>]}

\* C37: the frames are forwarded in the order of their delivery.  A forward
\* notification is posted only in the receive hook's call for the frame it
\* carries, at most one per call, under the correlation id generated in that
\* call (the ids grow with the deliveries, so no two forwards share one); a
\* binary or mirrored frame is forwarded in its call, and a call that begins
\* to wait has posted its frame's notification in the same step, before the
\* wait.
C37_ForwardInDeliveryOrder ==
    [][ /\ Cardinality(FramesPosted(posted')) <= 1
        /\ \A i \in FramesPosted(posted') :
              /\ frames' = frames + 1
              /\ posted'[i].id = frames'
              /\ \E id \in KernelIds : FrameWith(id, posted'[i].data, MaxFrames)
        /\ \A id \in KernelIds, f \in Frames :
              ( /\ FrameWith(id, f, MaxFrames)
                /\ f.binary \/ shouldMessageBeMirroredWithRenderer(f) )
              => \E i \in FramesPosted(posted') : posted'[i].data = f
        /\ \A c \in suspended' :
              (c.call[1] = "receive" /\ ~Suspended(c.call, suspended))
              => /\ c.call[2] = frames'
                 /\ Forwarded(<<"uuid", frames'>>, posted') ]_vars

\* the second frame was forwarded under the second correlation id and its
\* call has begun to wait
C37_Witness ==
    /\ frames = 2
    /\ Len(posted) = 1
    /\ posted[1].message = "IPyWidgets_msg"
    /\ posted[1].id = 2
    /\ Suspended(<<"receive", 2>>, suspended)

\* C38: a call of the receive hook on the full-handle path completes normally
\* whichever of the Render Surface's two replies comes first.  The step that
\* brings the second of the two (the socket ack for the frame's correlation
\* id, the fully-handled report for the frame's message id) ends the call:
\* no exception leaves the hook, the call is no longer suspended and the gate
\* is empty.
C38_BothOrdersComplete ==
    [][ \A n \in 1..MaxGateFrames :
          ( /\ Suspended(<<"receive", n>>, suspended)
            /\ ~escaped
            /\ SocketAckWith(<<"uuid", n>>) \/ IopubHandledWith(n)
            /\ <<"uuid", n>> \in resolved'
            /\ <<"gate", n>> \in resolved' )
          => /\ ~escaped'
             /\ ~Suspended(<<"receive", n>>, suspended')
             /\ fullHandleMessage' = None ]_vars

\* on the first kernel connection a frame on the full-handle path was
\* reported as fully handled, then acknowledged: its call has ended with an
\* exception
C38_Witness ==
    /\ lastKernelId = 1
    /\ \E n \in 1..MaxGateFrames :
          /\ <<"gate", n>> \in resolved
          /\ <<"uuid", n>> \in resolved
          /\ waitingMessageIds = {}
    /\ suspended = {}
    /\ fullHandleMessage = None
    /\ escaped

\* one restart of the kernel k of a Dispatcher that is subscribed to it and
\* has registered every name it was asked for: the session gets the kernel
\* connection id
OneRestart(k, id) ==
    /\ ~disposed
    /\ kernel = k
    /\ HasConnection(World, k)
    /\ socketChangeListener.kernel = k
    /\ restartHandlerKernel = k
    /\ id \in NewKernelIds(k) \ {0}
    /\ pendingTargetNames = << >>
    /\ commTargetsRegistered # << >>

\* after the restart the names registered before it are registered again,
\* none is pending, and the connection id got each of them once (the
\* predefined one and those of the process-wide table apart)
Reregistered(before, after, id) ==
    /\ Range(after.commTargetsRegistered) = Range(before.commTargetsRegistered)
    /\ after.pendingTargetNames = << >>
    /\ \A name \in Range(before.commTargetsRegistered) \ {DefaultCommTarget} :
          <<id, name>> \notin after.thirdPartyTargets
          => after.connTargets[<<id, name>>] = 1

\* C39: the two notifications of one restart may come in either order.  When
\* the socket change is processed first and the kernel-restarted notification
\* after it, and when the kernel-restarted notification is processed first and
\* the socket change after it, the names registered before the restart are
\* registered again with the new kernel connection, each exactly once, and
\* commTargetsRegistered holds the names it held before.
C39_EitherOrder ==
    [][ \A k \in Kernels, id \in KernelIds, ok \in Accepts :
          /\ (OneRestart(k, id) /\ SocketChangeWith(k, id, ok))
                => Reregistered(World, onRestarted(World', k, ok), id)
          /\ (OneRestart(k, id) /\ KernelRestartedWith(k, ok))
                => Reregistered(World, socketChanged(World', k, id, ok), id) ]_vars

\* the Dispatcher is attached to the second kernel connection with the custom
\* name in commTargetsRegistered and nothing pending: the first connection got
\* the name, the second one did not
C39_Witness ==
    /\ ~disposed
    /\ KernelIdOf(World, kernel) = 2
    /\ kernelSocketHandlers[2] = "attached"
    /\ Has(commTargetsRegistered, "custom")
    /\ pendingTargetNames = << >>
    /\ <<2, "custom">> \notin thirdPartyTargets
    /\ connTargets[<<1, "custom">>] = 1
    /\ connTargets[<<2, "custom">>] = 0

\* C40: a Dispatcher subscribes to one kernel session and no more.  Once
\* subscribedToKernelSocket is set it stays set, the socket-change listener
\* stays on the kernel object it was added to, and the listener and the hooks
\* on the sockets change only when that kernel's session fires the socket
\* change: no call of initialize or handleKernelRestarts adds a listener or
\* attaches a hook, not even for another kernel object obtained from the
\* provider after the first one was disposed.  The restart handler is
\* attached once, to the first kernel object obtained, and is on no other
\* kernel object afterwards (dispose() detaches it).
C40_SubscribedOnce ==
    [][ /\ subscribedToKernelSocket
           => /\ subscribedToKernelSocket'
              /\ socketChangeListener'.kernel = socketChangeListener.kernel
              /\ ( \/ socketChangeListener' # socketChangeListener
                   \/ socketHooks' # socketHooks
                   \/ kernelSocketHandlers' # kernelSocketHandlers )
                 => \E id \in NewKernelIds(socketChangeListener.kernel),
                       ok \in Accepts :
                       SocketChangeWith(socketChangeListener.kernel, id, ok)
        /\ kernelRestartHandlerAttached
           => /\ kernelRestartHandlerAttached'
              /\ restartHandlerKernel' \in {restartHandlerKernel, 0}
              /\ disposeCalls'["onRestarted"]
                 + Len(SelectSeq(disposables', LAMBDA d : d = "onRestarted")) = 1 ]_vars

\* the first kernel object was disposed and the Dispatcher has obtained the
\* second one, started and with a kernel connection: the listener and the
\* restart handler are on the first one and the second one's socket carries
\* no hook
C40_Witness ==
    /\ kernelState[1] = "disposed"
    /\ kernel = 2
    /\ HasConnection(World, 2)
    /\ subscribedToKernelSocket
    /\ socketChangeListener.kernel = 1
    /\ restartHandlerKernel = 1
    /\ socketHooks[KernelIdOf(World, 2)] = 0
    /\ ~disposed

=============================================================================
